---- MODULE Spec2Model ----
(***************************************************************************)
(* Model of tools/normalize_original.py and tools/config.py: the text      *)
(* transform normalise_text and the batch run main() over a file system.   *)
(*                                                                         *)
(* A text is a sequence of characters; a character is named by its code    *)
(* point ("U+2014").  A file holds a text; the pseudo character            *)
(* InvalidByte marks a file whose bytes are not valid in cfg.encoding.     *)
(* A path is a sequence of names, relative to PROJECT_ROOT.                *)
(***************************************************************************)
EXTENDS Integers, Sequences, FiniteSets, TLC

(***************************************************************************)
(* Bounds of the model.                                                    *)
(***************************************************************************)
\* longest text the transform is applied to under SpecText
MaxLen == 3
\* most files present in the file system when a run starts
MaxFiles == 2

(***************************************************************************)
(* Part 1.  The text transform.                                            *)
(***************************************************************************)

NoChar == "none"

\* unicodedata.normalize("NFKC", .), step 1: full compatibility decomposition
\* of one character (Unicode character database, for the characters used here).
Decomposition(ch) ==
    CASE ch = "U+00E9" -> <<"U+0065", "U+0301">>   \* e with acute
      [] ch = "U+1EB9" -> <<"U+0065", "U+0323">>   \* e with dot below
      [] ch = "U+3000" -> <<"U+0020">>             \* ideographic space
      [] ch = "U+00A0" -> <<"U+0020">>             \* no-break space
      [] ch = "U+FF5E" -> <<"U+007E">>             \* fullwidth tilde
      [] ch = "U+FF0D" -> <<"U+002D">>             \* fullwidth hyphen-minus
      [] OTHER -> <<ch>>

\* canonical combining class: 0 for a starter
CombiningClass(ch) ==
    CASE ch = "U+0301" -> 230    \* combining acute accent
      [] ch = "U+0323" -> 220    \* combining dot below
      [] OTHER -> 0

\* the primary composite of a starter and a following character, if any
PrimaryComposite(starter, ch) ==
    CASE starter = "U+0065" /\ ch = "U+0301" -> "U+00E9"
      [] starter = "U+0065" /\ ch = "U+0323" -> "U+1EB9"
      [] OTHER -> NoChar

RECURSIVE Decompose(_)
Decompose(s) ==
    IF s = <<>> THEN <<>> ELSE Decomposition(Head(s)) \o Decompose(Tail(s))

\* canonical ordering: a combining mark moves before a preceding mark of a
\* higher class, never across a starter
RECURSIVE CanonicalOrder(_)
CanonicalOrder(s) ==
    LET bad == {i \in 1..(Len(s) - 1) :
                    /\ CombiningClass(s[i + 1]) > 0
                    /\ CombiningClass(s[i]) > CombiningClass(s[i + 1])}
    IN  IF bad = {} THEN s
        ELSE LET i == CHOOSE k \in bad : \A j \in bad : k <= j
             IN  CanonicalOrder([s EXCEPT ![i] = s[i + 1], ![i + 1] = s[i]])

\* canonical composition: a character combines with the last starter unless a
\* character in between blocks it (a starter, or a mark of a class not lower
\* than its own).  sp is the last starter's position in out (0: none yet),
\* lc the class of the last character kept.
RECURSIVE ComposeFrom(_, _, _, _, _)
ComposeFrom(s, i, out, sp, lc) ==
    IF i > Len(s) THEN out
    ELSE LET ch == s[i]
             cc == CombiningClass(ch)
             composite == IF sp > 0 THEN PrimaryComposite(out[sp], ch) ELSE NoChar
         IN  IF composite # NoChar /\ (lc < cc \/ lc = 0)
             THEN ComposeFrom(s, i + 1, [out EXCEPT ![sp] = composite], sp, lc)
             ELSE ComposeFrom(s, i + 1, Append(out, ch),
                              IF cc = 0 THEN Len(out) + 1 ELSE sp, cc)

Compose(s) == ComposeFrom(s, 1, <<>>, 0, 0)

NFKC(s) == Compose(CanonicalOrder(Decompose(s)))

\* the substitution table
COMPATIBILITY_TRANSLATION ==
    [ch \in {"U+3000", "U+2014", "U+2013", "U+00A0", "U+FF5E", "U+FF0D",
             "U+2018", "U+2019", "U+201C", "U+201D"} |->
        CASE ch \in {"U+3000", "U+00A0"} -> "U+0020"
          [] ch \in {"U+2014", "U+2013", "U+FF0D"} -> "U+002D"
          [] ch = "U+FF5E" -> "U+007E"
          [] ch \in {"U+2018", "U+2019"} -> "U+0027"
          [] ch \in {"U+201C", "U+201D"} -> "U+0022"]

\* str.translate: one character for one character
Translate(s) ==
    [i \in 1..Len(s) |->
        IF s[i] \in DOMAIN COMPATIBILITY_TRANSLATION
        THEN COMPATIBILITY_TRANSLATION[s[i]] ELSE s[i]]

\* unicodedata.name(ch, ""): the character's name as its words (a "-16"
\* suffix is a word of its own); <<>> for a character without a name
UnicodeName(ch) ==
    CASE ch = "U+FE0F" -> <<"VARIATION", "SELECTOR", "-16">>
      [] ch = "U+180B" -> <<"MONGOLIAN", "FREE", "VARIATION", "SELECTOR", "ONE">>
      [] ch = "U+000A" -> <<>>
      [] ch = "U+0301" -> <<"COMBINING", "ACUTE", "ACCENT">>
      [] ch = "U+0323" -> <<"COMBINING", "DOT", "BELOW">>
      [] ch = "U+2764" -> <<"HEAVY", "BLACK", "HEART">>
      [] ch = "U+2014" -> <<"EM", "DASH">>
      [] ch = "U+002D" -> <<"HYPHEN", "-MINUS">>
      [] ch = "U+0020" -> <<"SPACE">>
      [] OTHER -> <<"LETTER">>

\* needle in haystack, on words
Contains(haystack, needle) ==
    \E k \in 0..(Len(haystack) - Len(needle)) :
        \A j \in 1..Len(needle) : haystack[k + j] = needle[j]

_is_variation_selector(ch) == Contains(UnicodeName(ch), <<"VARIATION", "SELECTOR">>)

normalise_text(content) ==
    LET normalized == NFKC(content)
        translated == Translate(normalized)
        cleaned == SelectSeq(translated, LAMBDA ch : ~_is_variation_selector(ch))
    IN  cleaned

(***************************************************************************)
(* Part 2.  Paths, the configuration and the file system.                  *)
(***************************************************************************)

\* no path given on the command line
None == <<>>

InvalidByte == "0xFF"

\* the names that occur, in the order Python compares strings
NameOrder ==
    <<"a.txt", "b.txt", "d.txt", "data", "in", "normalized_original",
      "notes.md", "original_txt", "out", "report.json", "results", "sub">>

Rank(name) == CHOOSE i \in 1..Len(NameOrder) : NameOrder[i] = name

\* Path.__lt__: the parts compared as tuples
RECURSIVE PathLess(_, _)
PathLess(p, q) ==
    IF p = <<>> THEN q # <<>>
    ELSE IF q = <<>> THEN FALSE
    ELSE IF Head(p) = Head(q) THEN PathLess(Tail(p), Tail(q))
    ELSE Rank(Head(p)) < Rank(Head(q))

RECURSIVE sorted(_)
sorted(S) ==
    IF S = {} THEN <<>>
    ELSE LET m == CHOOSE p \in S : \A q \in S \ {p} : PathLess(p, q)
         IN  <<m>> \o sorted(S \ {m})

\* p lies strictly below directory d
IsUnder(p, d) == Len(p) > Len(d) /\ SubSeq(p, 1, Len(d)) = d

\* path.relative_to(base)
relative_to(p, base) == SubSeq(p, Len(base) + 1, Len(p))

\* the parent directories of p, from the top, and p itself
Prefixes(p) == {SubSeq(p, 1, k) : k \in 1..Len(p)}

parent(p) == SubSeq(p, 1, Len(p) - 1)

\* fnmatch of a name against "*.txt"
MatchesTxt(name) == name \in {"a.txt", "b.txt", "d.txt"}

\* config.py: the defaults, relative to PROJECT_ROOT
DEFAULT_CONFIG ==
    [source_dir |-> <<"data", "original_txt">>,
     output_dir |-> <<"results", "normalized_original">>,
     report_path |-> <<"results", "normalized_original", "report.json">>]

\* main(): the configuration the command line selects
NormalizeOriginalConfig(a) ==
    IF a.source # None
    THEN [source_dir |-> a.source,
          output_dir |-> IF a.output # None THEN a.output
                         ELSE DEFAULT_CONFIG.output_dir,
          report_path |-> IF a.output # None THEN Append(a.output, "report.json")
                          ELSE DEFAULT_CONFIG.report_path]
    ELSE IF a.output # None
    THEN [source_dir |-> DEFAULT_CONFIG.source_dir,
          output_dir |-> a.output,
          report_path |-> Append(a.output, "report.json")]
    ELSE DEFAULT_CONFIG

\* Path.mkdir(parents=True, exist_ok=True): fails when a regular file is in
\* the way, else every missing directory on the path is created
MkdirFails(fileSet, p) == Prefixes(p) \cap fileSet # {}

Mkdir(dirSet, p) == dirSet \cup Prefixes(p)

\* gather_files: the regular files below source_dir whose name matches
\* *.txt, sorted
gather_files(fileSet, dirSet, source_dir) ==
    sorted({p \in fileSet \cup dirSet :
                /\ IsUnder(p, source_dir)
                /\ MatchesTxt(p[Len(p)])
                /\ p \in fileSet})

\* read_text fails on bytes that are not valid in the encoding
Decodable(bytes) == \A i \in 1..Len(bytes) : bytes[i] # InvalidByte

(***************************************************************************)
(* prompt_yes_no                                                           *)
(***************************************************************************)
RECURSIVE lstrip(_)
lstrip(s) == IF s # <<>> /\ Head(s) = " " THEN lstrip(Tail(s)) ELSE s

RECURSIVE rstrip(_)
rstrip(s) ==
    IF s # <<>> /\ s[Len(s)] = " " THEN rstrip(SubSeq(s, 1, Len(s) - 1)) ELSE s

strip(s) == rstrip(lstrip(s))

lower(s) ==
    [i \in 1..Len(s) |->
        CASE s[i] = "Y" -> "y" [] s[i] = "E" -> "e" [] s[i] = "S" -> "s"
          [] s[i] = "N" -> "n" [] s[i] = "O" -> "o" [] OTHER -> s[i]]

\* the default is dropped: an empty answer counts as a no
prompt_yes_no_NoDefault(answer, default) ==
    lower(strip(answer)) \in {<<"y">>, <<"y", "e", "s">>}

prompt_yes_no(answer, default) ==
    LET normalized == lower(strip(answer))
    IN  IF normalized = <<>> THEN default
        ELSE normalized \in {<<"y">>, <<"y", "e", "s">>}

(***************************************************************************)
(* Part 3.  The run: main() as a state machine.                            *)
(***************************************************************************)
VARIABLES
    args,        \* the parsed command line: dry_run, interactive, source, output
    cfg,         \* the configuration main() builds from it
    files,       \* the file system: path of each regular file -> its content
    dirs,        \* the file system: the directories that exist
    reportFile,  \* the content of the file at cfg.report_path, or NoReport
    pc,          \* where main() stands
    dry_run,     \* main()'s local dry_run
    fileList,    \* gather_files' result
    idx,         \* process_files: position in fileList
    original,    \* process_files: the text read
    normalized,  \* process_files: its normalised form
    reports,     \* process_files: the FileReports so far
    returned,    \* "" while running, then "0", "1" or "exception"
    fs0,         \* history: the file system when the run started
    dry_answer,  \* history: the line typed at the dry-run prompt
    events       \* history: the file operations of the batch loop, in order,
                 \* each <<operation, path, text read or written>>

vars == <<args, cfg, files, dirs, reportFile, pc, dry_run, fileList, idx,
          original, normalized, reports, returned, fs0, dry_answer, events>>

NoReport == [written |-> FALSE]

\* the files a run may find
CandidateFiles ==
    {<<"in", "a.txt">>, <<"in", "sub", "b.txt">>, <<"in", "out", "a.txt">>,
     <<"data", "original_txt", "a.txt">>, <<"in", "notes.md">>}

\* what they may hold: a text the transform leaves alone, one it changes
\* keeping the length, one it shortens, and bytes that do not decode
Contents ==
    {<<"U+0078">>, <<"U+2014">>, <<"U+0065", "U+FE0F", "U+0301">>,
     <<InvalidByte>>}

\* directories that may exist besides the parents of the files
ExtraDirs == {{}, {<<"in">>, <<"in", "d.txt">>}}

SourceArgs == {None, <<"in">>, <<"in", "a.txt">>}
OutputArgs == {None, <<"in">>, <<"in", "out">>, <<"out">>, <<"in", "notes.md">>}

\* what the user may type at a prompt
Answers ==
    {<<>>, <<" ">>, <<"y">>, <<" ", "Y", "E", "s", " ">>, <<"y", "e">>,
     <<"n">>, <<"N", "o">>}

Init ==
    /\ \E S \in SUBSET CandidateFiles :
         /\ Cardinality(S) <= MaxFiles
         /\ files \in [S -> Contents]
         /\ \E extra \in ExtraDirs :
              dirs = extra \cup UNION {Prefixes(parent(p)) : p \in S}
    /\ args \in [dry_run : BOOLEAN, interactive : BOOLEAN,
                 source : SourceArgs, output : OutputArgs]
    /\ cfg = DEFAULT_CONFIG
    /\ reportFile = NoReport
    /\ pc = "start"
    /\ dry_run = FALSE
    /\ fileList = <<>>
    /\ idx = 0
    /\ original = <<>>
    /\ normalized = <<>>
    /\ reports = <<>>
    /\ returned = ""
    /\ fs0 = [files |-> files, dirs |-> dirs]
    /\ dry_answer = <<>>
    /\ events = <<>>

\* main(), lines 168-182: the configuration
Configure ==
    /\ pc = "start"
    /\ cfg' = NormalizeOriginalConfig(args)
    /\ pc' = "ensure"
    /\ UNCHANGED <<args, files, dirs, reportFile, dry_run, fileList, idx,
                   original, normalized, reports, returned, fs0, dry_answer,
                   events>>

\* cfg.ensure_directories(), then dry_run = args.dry_run
ensure_directories ==
    /\ pc = "ensure"
    /\ IF MkdirFails(DOMAIN files, cfg.output_dir)
       THEN /\ pc' = "raised"
            /\ returned' = "exception"
            /\ UNCHANGED <<dirs, dry_run>>
       ELSE IF MkdirFails(DOMAIN files, parent(cfg.report_path))
       THEN /\ dirs' = Mkdir(dirs, cfg.output_dir)
            /\ pc' = "raised"
            /\ returned' = "exception"
            /\ UNCHANGED dry_run
       ELSE /\ dirs' = Mkdir(Mkdir(dirs, cfg.output_dir), parent(cfg.report_path))
            /\ dry_run' = args.dry_run
            /\ pc' = IF args.interactive THEN "prompt_run" ELSE "check"
            /\ UNCHANGED returned
    /\ UNCHANGED <<args, cfg, files, reportFile, fileList, idx, original,
                   normalized, reports, fs0, dry_answer, events>>

\* the first prompt: run now? (default yes)
PromptRunNow ==
    /\ pc = "prompt_run"
    /\ \E answer \in Answers :
         LET run_now == prompt_yes_no(answer, TRUE)
         IN  IF ~run_now
             THEN pc' = "cancelled" /\ returned' = "0"
             ELSE pc' = "prompt_dry" /\ UNCHANGED returned
    /\ UNCHANGED <<args, cfg, files, dirs, reportFile, dry_run, fileList, idx,
                   original, normalized, reports, fs0, dry_answer, events>>

\* the second prompt: dry-run first? (default: the --dry-run flag)
PromptDryRun ==
    /\ pc = "prompt_dry"
    /\ \E answer \in Answers :
         /\ dry_run' = prompt_yes_no(answer, dry_run)
         /\ dry_answer' = answer
    /\ pc' = "check"
    /\ UNCHANGED <<args, cfg, files, dirs, reportFile, fileList, idx, original,
                   normalized, reports, returned, fs0, events>>

\* the same without the early return for an empty file list
Discover_NoShortCircuit ==
    /\ pc = "check"
    /\ IF cfg.source_dir \notin dirs
       THEN /\ pc' = "failed_precondition"
            /\ returned' = "1"
            /\ UNCHANGED <<fileList, idx>>
       ELSE LET found == gather_files(DOMAIN files, dirs, cfg.source_dir)
            IN  /\ fileList' = found
                /\ IF found = <<>>
                   THEN pc' = "report" /\ UNCHANGED <<idx, returned>>
                   ELSE pc' = "read" /\ idx' = 1 /\ UNCHANGED returned
    /\ UNCHANGED <<args, cfg, files, dirs, reportFile, dry_run, original,
                   normalized, reports, fs0, dry_answer, events>>

\* main(), lines 200-208: the source directory and the discovery
Discover ==
    /\ pc = "check"
    /\ IF cfg.source_dir \notin dirs
       THEN /\ pc' = "failed_precondition"
            /\ returned' = "1"
            /\ UNCHANGED <<fileList, idx>>
       ELSE LET found == gather_files(DOMAIN files, dirs, cfg.source_dir)
            IN  /\ fileList' = found
                /\ IF found = <<>>
                   THEN pc' = "no_files" /\ returned' = "0" /\ UNCHANGED idx
                   ELSE pc' = "read" /\ idx' = 1 /\ UNCHANGED returned
    /\ UNCHANGED <<args, cfg, files, dirs, reportFile, dry_run, original,
                   normalized, reports, fs0, dry_answer, events>>

\* what follows the loop body for file idx
AfterFile == IF idx = Len(fileList) THEN "report" ELSE "read"

\* characters_after taken from the text read instead of the result
FileReport_SameLength(path, text, result) ==
    [path |-> relative_to(path, cfg.source_dir),
     changed |-> result # text,
     characters_before |-> Len(text),
     characters_after |-> Len(text)]

\* changed decided by comparing the lengths instead of the texts
FileReport_ChangedByLength(path, text, result) ==
    [path |-> relative_to(path, cfg.source_dir),
     changed |-> Len(result) # Len(text),
     characters_before |-> Len(text),
     characters_after |-> Len(result)]

FileReport(path, text, result) ==
    [path |-> relative_to(path, cfg.source_dir),
     changed |-> result # text,
     characters_before |-> Len(text),
     characters_after |-> Len(result)]

\* the dry-run flag ignored
ShouldWrite_Always == TRUE

\* line 131: if not dry_run
ShouldWrite == ~dry_run

\* process_files, lines 120-130: read, normalise, record
ReadFile ==
    /\ pc = "read"
    /\ LET path == fileList[idx]
       IN  IF path \notin DOMAIN files \/ ~Decodable(files[path])
           THEN /\ pc' = "raised"
                /\ returned' = "exception"
                /\ events' = Append(events, <<"read_failed", path, <<>>>>)
                /\ UNCHANGED <<original, normalized, reports, idx>>
           ELSE /\ original' = files[path]
                /\ normalized' = normalise_text(files[path])
                /\ reports' = Append(reports, FileReport(path, files[path],
                                         normalise_text(files[path])))
                /\ events' = Append(events, <<"read", path, files[path]>>)
                /\ IF ShouldWrite
                   THEN pc' = "write" /\ UNCHANGED idx
                   ELSE pc' = AfterFile /\ idx' = idx + 1
                /\ UNCHANGED returned
    /\ UNCHANGED <<args, cfg, files, dirs, reportFile, dry_run, fileList, fs0,
                   dry_answer>>

\* line 132
output_path == cfg.output_dir \o relative_to(fileList[idx], cfg.source_dir)

\* Path.write_text
write_text(path, text) ==
    [p \in DOMAIN files \cup {path} |-> IF p = path THEN text ELSE files[p]]

\* process_files, lines 133-134: the write succeeds
WriteFile ==
    /\ pc = "write"
    /\ ~MkdirFails(DOMAIN files, parent(output_path))
    /\ output_path \notin dirs
    /\ dirs' = Mkdir(dirs, parent(output_path))
    /\ files' = write_text(output_path, normalized)
    /\ events' = Append(events, <<"write", output_path, normalized>>)
    /\ pc' = AfterFile
    /\ idx' = idx + 1
    /\ UNCHANGED <<args, cfg, reportFile, dry_run, fileList, original,
                   normalized, reports, returned, fs0, dry_answer>>

\* the same failure, swallowed: the loop goes on
WriteFileFails_Continue ==
    /\ pc = "write"
    /\ events' = Append(events, <<"write_failed", output_path, <<>>>>)
    /\ pc' = AfterFile
    /\ idx' = idx + 1
    /\ UNCHANGED <<args, cfg, files, dirs, reportFile, dry_run, fileList,
                   original, normalized, reports, returned, fs0, dry_answer>>

\* process_files, lines 133-134: the write fails, at mkdir (nothing is
\* changed), at the open (the directories are made) or while writing (the file
\* is left truncated); the exception ends the run
WriteFileFails ==
    /\ pc = "write"
    /\ \E stage \in {"mkdir", "open", "write"} :
         /\ stage # "mkdir" => ~MkdirFails(DOMAIN files, parent(output_path))
         /\ stage = "write" => output_path \notin dirs
         /\ dirs' = IF stage = "mkdir" THEN dirs
                    ELSE Mkdir(dirs, parent(output_path))
         /\ files' = IF stage = "write" THEN write_text(output_path, <<>>)
                     ELSE files
    /\ events' = Append(events, <<"write_failed", output_path, <<>>>>)
    /\ pc' = "raised"
    /\ returned' = "exception"
    /\ UNCHANGED <<args, cfg, reportFile, dry_run, fileList, idx, original,
                   normalized, reports, fs0, dry_answer>>

\* process_files' return value
RunReport ==
    [source_dir |-> cfg.source_dir,
     output_dir |-> cfg.output_dir,
     dry_run |-> dry_run,
     files |-> reports]

\* write_report, then main() returns 0
write_report ==
    /\ pc = "report"
    /\ reportFile' = [written |-> TRUE, payload |-> RunReport]
    /\ pc' = "completed"
    /\ returned' = "0"
    /\ UNCHANGED <<args, cfg, files, dirs, dry_run, fileList, idx, original,
                   normalized, reports, fs0, dry_answer, events>>

Next ==
    \/ Configure
    \/ ensure_directories
    \/ PromptRunNow
    \/ PromptDryRun
    \/ Discover
    \/ ReadFile
    \/ WriteFile
    \/ WriteFileFails
    \/ write_report

Spec == Init /\ [][Next]_vars

(***************************************************************************)
(* The transform applied to every short text, once and then again.         *)
(***************************************************************************)
InputChars ==
    {"U+0078", "U+0065", "U+0301", "U+0323", "U+00E9", "U+FE0F", "U+2014",
     "U+3000", "U+000A"}

Texts == UNION {[1..n -> InputChars] : n \in 0..MaxLen}

InitText ==
    /\ original \in Texts
    /\ normalized = <<>>
    /\ pc = "text"
    /\ args = [dry_run |-> FALSE, interactive |-> FALSE, source |-> None,
               output |-> None]
    /\ cfg = DEFAULT_CONFIG
    /\ files = <<>>
    /\ dirs = {}
    /\ reportFile = NoReport
    /\ dry_run = FALSE
    /\ fileList = <<>>
    /\ idx = 0
    /\ reports = <<>>
    /\ returned = ""
    /\ fs0 = [files |-> <<>>, dirs |-> {}]
    /\ dry_answer = <<>>
    /\ events = <<>>

\* normalized = normalise_text(original)
NormaliseOnce ==
    /\ pc = "text"
    /\ normalized' = normalise_text(original)
    /\ pc' = "once"
    /\ UNCHANGED <<args, cfg, files, dirs, reportFile, dry_run, fileList, idx,
                   original, reports, returned, fs0, dry_answer, events>>

\* the result is normalised again
NormaliseTwice ==
    /\ pc = "once"
    /\ original' = normalized
    /\ normalized' = normalise_text(normalized)
    /\ pc' = "twice"
    /\ UNCHANGED <<args, cfg, files, dirs, reportFile, dry_run, fileList, idx,
                   reports, returned, fs0, dry_answer, events>>

NextText == NormaliseOnce \/ NormaliseTwice

SpecText == InitText /\ [][NextText]_vars

(***************************************************************************)
(* Part 4.  The properties.                                                *)
(***************************************************************************)

\* the .txt files below the source directory when the run started
TxtFilesAtStart ==
    {p \in DOMAIN fs0.files :
        IsUnder(p, cfg.source_dir) /\ MatchesTxt(p[Len(p)])}

\* the files that exist now and did not when the run started
CreatedFiles ==
    (DOMAIN files \ DOMAIN fs0.files)
        \cup (IF reportFile.written THEN {cfg.report_path} ELSE {})

\* no normalised output was written, whole or in part
NoOutputWritten ==
    /\ files = fs0.files
    /\ \A j \in 1..Len(events) : events[j][1] \notin {"write", "write_failed"}

\* the successful reads of the batch loop, in order
ReadEvents == SelectSeq(events, LAMBDA e : e[1] = "read")

\* the output directory is the source directory or lies inside it
Overlap ==
    cfg.output_dir = cfg.source_dir \/ IsUnder(cfg.output_dir, cfg.source_dir)

mirror(path) == cfg.output_dir \o relative_to(path, cfg.source_dir)

\* C1: normalise_text is idempotent: normalising the result of a
\* normalisation gives that result again.
C1_Idempotent == pc = "twice" => normalized = original

\* C2 as stated: a completed dry run over N .txt files reports N entries and
\* creates no file under the output directory.
C2_NoFileUnderOutput ==
    (pc = "completed" /\ dry_run) =>
        /\ Len(reportFile.payload.files) = Cardinality(TxtFilesAtStart)
        /\ {p \in CreatedFiles : IsUnder(p, cfg.output_dir)} = {}

\* C2 as amended: a dry run never changes a file; once completed, its report
\* lists one entry per .txt file (at least one), and the only file it has
\* created is the report itself, which lies under the output directory.
C2_DryRunOnlyReport ==
    dry_run =>
        /\ NoOutputWritten
        /\ pc = "completed" =>
             /\ Cardinality(TxtFilesAtStart) >= 1
             /\ Len(reportFile.payload.files) = Cardinality(TxtFilesAtStart)
             /\ CreatedFiles = {cfg.report_path}
             /\ IsUnder(cfg.report_path, cfg.output_dir)

C2_Witness ==
    /\ pc = "completed"
    /\ dry_run
    /\ args.output # None
    /\ Cardinality(TxtFilesAtStart) = 2

\* C3: after a completed run every discovered source file holds what it held
\* before the run.
C3_InputsUntouched ==
    pc = "completed" =>
        \A i \in 1..Len(fileList) :
            /\ fileList[i] \in DOMAIN files
            /\ files[fileList[i]] = fs0.files[fileList[i]]

\* C4 as stated: with --dry-run on the command line no normalised output is
\* ever written.
C4_FlagNeverWrites == args.dry_run => NoOutputWritten

\* the answers to the dry-run prompt that keep a dry run: empty, blank, y, yes
KeepAnswers == {<<>>, <<" ">>, <<"y">>, <<" ", "Y", "E", "s", " ">>}

\* C4 as amended: with --dry-run on the command line no normalised output is
\* written by a non-interactive run, nor by an interactive run in which the
\* answer to the dry-run prompt is empty, y or yes.
C4_FlagUnlessDeclined ==
    (args.dry_run /\ (~args.interactive \/ dry_answer \in KeepAnswers)) =>
        NoOutputWritten

C4_Witness ==
    /\ pc = "completed"
    /\ args.dry_run
    /\ args.interactive
    /\ dry_answer = <<" ", "Y", "E", "s", " ">>

C6_MirroredOutput ==
    (pc = "completed" /\ ~dry_run) =>
        /\ \A i \in 1..Len(fileList) :
             /\ mirror(fileList[i]) \in DOMAIN files
             /\ files[mirror(fileList[i])]
                    = normalise_text(fs0.files[fileList[i]])
        /\ {events[j][2] : j \in {k \in 1..Len(events) : events[k][1] = "write"}}
               = {mirror(fileList[i]) : i \in 1..Len(fileList)}

C8_ChangedFlag ==
    /\ pc \in {"read", "write", "report", "completed", "raised"} =>
         Len(reports) = Len(ReadEvents)
    /\ \A i \in 1..Len(reports) :
         LET text == ReadEvents[i][3]
         IN  /\ ~reports[i].changed <=> normalise_text(text) = text
             /\ ~reports[i].changed =>
                  reports[i].characters_before = reports[i].characters_after

C8_Witness ==
    /\ Len(reports) = 2
    /\ \E i \in 1..2 : ~reports[i].changed
    /\ \E i \in 1..2 :
         /\ reports[i].changed
         /\ reports[i].characters_before = reports[i].characters_after

\* C9: a run cancelled at the first prompt returns 0 and leaves the file
\* system, directories included, as it was.
C9_CancelLeavesNoTrace ==
    pc = "cancelled" =>
        /\ returned = "0"
        /\ files = fs0.files
        /\ dirs = fs0.dirs

\* C10: the batch loop handles the files one at a time in discovery order
\* (read k, write k, read k+1, ...); a failed read or write is the last
\* operation of the run, which ends without a report; and what was written
\* for the files before stays in place.
C10_SequentialFailFast ==
    /\ \A j \in 1..Len(events) :
         LET k == IF dry_run THEN j ELSE (j + 1) \div 2
             reading == dry_run \/ j % 2 = 1
         IN  /\ k <= Len(fileList)
             /\ IF reading
                THEN /\ events[j][1] \in {"read", "read_failed"}
                     /\ events[j][2] = fileList[k]
                ELSE /\ events[j][1] \in {"write", "write_failed"}
                     /\ events[j][2] = mirror(fileList[k])
                     /\ events[j - 1][1] = "read"
             /\ events[j][1] \in {"read_failed", "write_failed"} =>
                  /\ j = Len(events)
                  /\ pc = "raised"
                  /\ ~reportFile.written
             /\ events[j][1] = "write" =>
                  /\ events[j][3] = normalise_text(events[j - 1][3])
                  /\ events[j][2] \in DOMAIN files
                  /\ files[events[j][2]] = events[j][3]
    /\ pc = "read" => Len(events) = (IF dry_run THEN 1 ELSE 2) * (idx - 1)
    /\ pc = "write" => Len(events) = 2 * idx - 1

C10_Witness ==
    /\ pc = "raised"
    /\ Len(events) >= 3
    /\ events[2][1] = "write"
    /\ events[Len(events)][1] \in {"read_failed", "write_failed"}

====
